---- MODULE Spec2Model ----
(***************************************************************************)
(* Task Service (src/task-service/main.py) and the token functions of the *)
(* User Service (src/user-service/main.py).                               *)
(*                                                                         *)
(* Every request of the Task Service is a sequence of accesses to shared  *)
(* state (the Redis store, the tasks table, the SMTP server); an access   *)
(* is an atomic step of the model and requests interleave freely between  *)
(* their steps, as FastAPI runs sync handlers on a thread pool.           *)
(***************************************************************************)
EXTENDS Integers, Sequences, FiniteSets, TLC

\* ------------------------------------------------------------- bounds
MaxTasks == 2        \* the last id the SERIAL sequence of tasks.id hands out
MaxCommits == 2      \* write transactions the task store begins in one behaviour
MaxNow == 31         \* minutes the User Service's clock runs

\* The worker threads that run handlers: two requests are in flight at a time.
Req == {1, 2}

\* The slots of the service: a third worker thread runs only where three
\* requests in flight are needed.
Slots == Req \cup {3}

\* ------------------------------------------------------------- inputs
Sids == {"s1", "s2", "s3"}          \* session ids the upstream login flow wrote
WithTtl == {"s1"}                   \* those it wrote with a ttl; the others persist
Cookies == {<<>>, <<"">>, <<"s0">>} \cup {<<s>> : s \in Sids}
TaskIds == {1, 2}                   \* the task ids requests address
Titles == {"buy milk"}
Emails == {<<>>, <<"a@x.com">>}     \* X-User-Email header: absent or present
Kinds == {"list", "create", "mark_done", "reactivate", "delete_task"}

\* ------------------------------------------------------------- int()
\* A string is the sequence of the code points of its characters.
\* Python's int(str): the whitespace around the number is skipped, then an
\* optional sign, then decimal digits of any script, single underscores allowed
\* between two digits; anything else raises ValueError, and so do more digits
\* than sys.int_max_str_digits.

\* The characters int() skips around the number.
Whitespace ==
    {9, 10, 11, 12, 13, 32, 133, 160, 5760, 8192, 8193, 8194, 8195, 8196,
     8197, 8198, 8199, 8200, 8201, 8202, 8232, 8233, 8239, 8287, 12288}

\* The code point of the digit zero of every script (the characters of category
\* Nd come in runs of ten, zero to nine; Unicode 14).
DigitZeros ==
    {48, 1632, 1776, 1984, 2406, 2534, 2662, 2790, 2918, 3046, 3174, 3302,
     3430, 3558, 3664, 3792, 3872, 4160, 4240, 6112, 6160, 6470, 6608, 6784,
     6800, 6992, 7088, 7232, 7248, 42528, 43216, 43264, 43472, 43504, 43600,
     44016, 65296, 66720, 68912, 69734, 69872, 69942, 70096, 70384, 70736,
     70864, 71248, 71360, 71472, 71904, 72016, 72784, 73040, 73120, 92768,
     92864, 93008, 120782, 120792, 120802, 120812, 120822, 123200, 123632,
     125264, 130032}

IsDigit(c) == \E z \in DigitZeros : c \in z..(z + 9)

DigitVal(c) == c - (CHOOSE z \in DigitZeros : c \in z..(z + 9))

Underscore == 95

Plus == 43

Minus == 45

RECURSIVE LStrip(_)
LStrip(s) == IF s # <<>> /\ Head(s) \in Whitespace THEN LStrip(Tail(s)) ELSE s

RECURSIVE RStrip(_)
RStrip(s) == IF s # <<>> /\ s[Len(s)] \in Whitespace
             THEN RStrip(SubSeq(s, 1, Len(s) - 1)) ELSE s

\* The value of a sequence of digits and underscores.
RECURSIVE DigitsVal(_)
DigitsVal(s) == IF s = <<>> THEN 0
                ELSE IF s[Len(s)] = Underscore THEN DigitsVal(SubSeq(s, 1, Len(s) - 1))
                ELSE 10 * DigitsVal(SubSeq(s, 1, Len(s) - 1)) + DigitVal(s[Len(s)])

\* sys.get_int_max_str_digits() of the interpreter (Python 3.11, the default).
IntMaxStrDigits == 4300

\* The digits of a sequence of digits and underscores, leading zeros included.
NumDigits(s) == Cardinality({i \in 1..Len(s) : s[i] # Underscore})

\* [ok |-> FALSE] is ValueError.
PyInt(str) ==
    LET t == RStrip(LStrip(str))
        signed == t # <<>> /\ Head(t) \in {Minus, Plus}
        d == IF signed THEN Tail(t) ELSE t
    IN IF /\ d # <<>>
          /\ \A i \in 1..Len(d) : IsDigit(d[i]) \/ d[i] = Underscore
          /\ IsDigit(d[1]) /\ IsDigit(d[Len(d)])
          /\ \A i \in 1..(Len(d) - 1) : ~(d[i] = Underscore /\ d[i + 1] = Underscore)
          /\ NumDigits(d) <= IntMaxStrDigits
       THEN [ok |-> TRUE,
             val |-> IF signed /\ Head(t) = Minus THEN 0 - DigitsVal(d) ELSE DigitsVal(d)]
       ELSE [ok |-> FALSE, val |-> 0]

\* The values stored under sid:<session_id>: "1", "2" and "abc".
InitialSessions == [s \in Sids |-> CASE s = "s1" -> <<49>>
                                     [] s = "s2" -> <<50>>
                                     [] OTHER -> <<97, 98, 99>>]

Users == {1, 2}

VARIABLES
    sessions,   \* Redis: session id -> stored value, for the live keys sid:<id>
    cache,      \* Redis: user id -> cached JSON listing, for the live keys tasks:<id>
    tasks,      \* the tasks table: id -> row, for the rows that exist
    nextId,     \* the SERIAL sequence of tasks.id
    dbTime,     \* the task store's clock: NOW() of the last write transaction begun
    began,      \* per request slot: NOW() of the slot's open write transaction (0: none)
    smtpHost,   \* SMTP_HOST, fixed at start-up
    outbox,     \* messages the SMTP server accepted
    pc,         \* per request slot: the next shared-state access of the request
    call,       \* per request slot: the inputs of the request
    uid,        \* per request slot: <<user_id>> once get_user_id returned, else <<>>
    rows,       \* per request slot: the rows the handler's SQL statement returned
    rowcount,   \* per request slot: result.rowcount of the handler's SQL statement
    out,        \* the response the last step sent, with its request (else NoOut)
    \* History variables: they record what happened and no action's guard or
    \* program-state update reads them.
    commits,    \* per user: number of committed writes to the user's tasks
    returned,   \* per user: the highest commit number whose write request has returned
    cacheVer,   \* per cache key: commit number the cached listing was read at
    cacheLate,  \* per cache key: the cached listing was already out of date when stored
    ver,        \* per slot: commit number of the rows the handler holds or returned
    need,       \* per slot (list): `returned` of the user when the request arrived,
                \* 0 once the handler has read rows at least that new
    seqw,       \* per user: the last committed write and the list that followed it
    \* User Service
    now,        \* datetime.utcnow(), in minutes
    users,      \* the users table
    token,      \* the bearer token last minted (NoToken before)
    verdict,    \* the outcome of the last verification (NoVerdict unless just made)
    upc,        \* per request slot: where a register or login handler waits to be resumed
    ucall,      \* per request slot: the body of the register or login request
    dbUser,     \* per request slot: <<row>> the login handler's SELECT returned (<<>>: None)
    regId,      \* per request slot: the id the register handler's INSERT returned (0: none)
    reply,      \* the response register or login sent in the last step (else NoReply)
    nextUid,    \* the SERIAL sequence of users.id
    holder,     \* history: the id of the user `token` was minted for by register or login
    \* The expiry of cached listings
    clock,      \* the ticks of SecondsPerTick that have passed, MaxClock at most
    expireAt,   \* per cache key: the tick after which Redis evicts the entry (0: no entry)
    order,      \* the cache keys that will expire, the one written first first
    commitAt,   \* history, per user: the tick of each committed write, in commit order
    startAt,    \* history, per slot: the tick at which the request in the slot arrived
    \* The list that follows an invalidation
    pend,       \* history, per user: the commit number of the write whose invalidation
                \* evicted a listing without it, until the next list arrives (else 0)
    nxt         \* history, per slot: `pend` of the user when the list in the slot arrived

progVars == <<sessions, cache, tasks, nextId, dbTime, began, smtpHost, outbox,
              pc, call, uid, rows, rowcount, out>>
histVars == <<commits, returned, cacheVer, cacheLate, ver, need, seqw>>
regVars == <<upc, ucall, dbUser, regId, reply, nextUid, holder>>
userVars == <<now, users, token, verdict, regVars>>
timeVars == <<clock, expireAt, order, commitAt, startAt>>
raceVars == <<pend, nxt>>
vars == <<progVars, histVars, userVars, timeVars, raceVars>>

\* ------------------------------------------------------------- responses
NoResp == [status |-> 0, detail |-> "", body |-> <<>>]

HTTPException(status_code, detail) == [status |-> status_code, detail |-> detail, body |-> <<>>]

\* A store failure escapes the handler: FastAPI answers 500.
InternalServerError == [status |-> 500, detail |-> "Internal Server Error", body |-> <<>>]

\* TaskOut: created_at and updated_at are datetime fields; pydantic accepts a
\* datetime and parses the string that str(datetime) wrote.
TaskOut(row) == [row EXCEPT !.created_at = <<"datetime", @[2]>>,
                            !.updated_at = <<"datetime", @[2]>>]

TaskOutList(rs) == [i \in 1..Len(rs) |-> TaskOut(rs[i])]

Response(status_code, rs) == [status |-> status_code, detail |-> "", body |-> TaskOutList(rs)]

\* ------------------------------------------------------------- get_user_id
\* (mutant) the key is read without its sid: prefix, so no session is ever found
GetUserIdNoPrefix(cookie) ==
    IF cookie = <<>> \/ cookie[1] = ""
    THEN [ok |-> FALSE, user_id |-> 0, error |-> HTTPException(401, "No session")]
    ELSE [ok |-> FALSE, user_id |-> 0, error |-> HTTPException(401, "Session expired")]

\* (mutant) a stored value that is no number falls back to user 1
GetUserIdFailOpen(cookie) ==
    IF cookie = <<>> \/ cookie[1] = ""
    THEN [ok |-> FALSE, user_id |-> 0, error |-> HTTPException(401, "No session")]
    ELSE LET user_id == IF cookie[1] \in DOMAIN sessions THEN sessions[cookie[1]] ELSE <<>>
         IN IF user_id = <<>>
            THEN [ok |-> FALSE, user_id |-> 0, error |-> HTTPException(401, "Session expired")]
            ELSE IF PyInt(user_id).ok
                 THEN [ok |-> TRUE, user_id |-> PyInt(user_id).val, error |-> NoResp]
                 ELSE [ok |-> TRUE, user_id |-> 1, error |-> NoResp]

\* sid = request.cookies.get("sid"); user_id = redis_client.get(f"sid:{sid}").
\* A missing key is None and, like the empty string, falsy.
GetUserId(cookie) ==
    IF cookie = <<>> \/ cookie[1] = ""
    THEN [ok |-> FALSE, user_id |-> 0, error |-> HTTPException(401, "No session")]
    ELSE LET user_id == IF cookie[1] \in DOMAIN sessions THEN sessions[cookie[1]] ELSE <<>>
         IN IF user_id = <<>>
            THEN [ok |-> FALSE, user_id |-> 0, error |-> HTTPException(401, "Session expired")]
            ELSE IF PyInt(user_id).ok
                 THEN [ok |-> TRUE, user_id |-> PyInt(user_id).val, error |-> NoResp]
                 ELSE [ok |-> FALSE, user_id |-> 0, error |-> HTTPException(401, "Invalid session")]

\* ------------------------------------------------------------- cache helpers
\* json.dumps(rows, default=str): ints and strings as they are, datetimes through str().
JsonDumps(rs) == <<"json", [i \in 1..Len(rs) |->
                     [rs[i] EXCEPT !.created_at = <<"str", @[2]>>,
                                   !.updated_at = <<"str", @[2]>>]]>>

JsonLoads(str) == str[2]

\* (mutant) `if cached and json.loads(cached):` the empty listing is no hit
TruthyNonEmpty(cached) == cached # <<>> /\ cached[2] # <<>>

\* `if cached:` None (no key) and the empty string are falsy.
Truthy(cached) == cached # <<>>

RedisGet(store, key) == IF key \in DOMAIN store THEN store[key] ELSE <<>>

RedisDelete(store, key) == [k \in DOMAIN store \ {key} |-> store[k]]

\* (mutant) SET ... NX: an existing key keeps its value
RedisSetNx(store, key, value) ==
    [k \in DOMAIN store \cup {key} |-> IF k \in DOMAIN store THEN store[k] ELSE value]

RedisSet(store, key, value) == [k \in DOMAIN store \cup {key} |-> IF k = key THEN value ELSE store[k]]

\* (mutant) one key for every user
CacheKeyShared(user_id) == 1

\* f"tasks:{user_id}": the keys of `cache` are the user ids.
CacheKeyTasks(user_id) == user_id

\* (mutant) the entry is left in place
InvalidateNothing(user_id) == cache

\* (mutant) redis_client.flushdb(): every user's entry is dropped
InvalidateAll(user_id) == <<>>

InvalidateTasksCache(user_id) == RedisDelete(cache, CacheKeyTasks(user_id))

\* ------------------------------------------------------------- SQL
\* ORDER BY created_at DESC
RECURSIVE OrderByCreatedDesc(_)
OrderByCreatedDesc(S) ==
    IF S = {} THEN <<>>
    ELSE LET r == CHOOSE x \in S : \A y \in S : y.created_at[2] <= x.created_at[2]
         IN <<r>> \o OrderByCreatedDesc(S \ {r})

\* SELECT ... FROM tasks WHERE user_id = :uid ORDER BY created_at DESC
SelectTasks(user_id) ==
    OrderByCreatedDesc({tasks[t] : t \in {x \in DOMAIN tasks : tasks[x].user_id = user_id}})

\* (mutant) WHERE id = :tid
WhereId(tid, user_id) == {t \in DOMAIN tasks : t = tid}

\* WHERE id = :tid AND user_id = :uid
WhereIdAndUser(tid, user_id) == {t \in DOMAIN tasks : t = tid /\ tasks[t].user_id = user_id}

\* ------------------------------------------------------------- email
\* The outcomes of send_email_if_configured: skipped without SMTP_HOST or
\* recipient; otherwise the SMTP exchange succeeds or raises.
SendEmailOutcomes(to_email) ==
    IF smtpHost = "" \/ to_email = "" THEN {"skipped"} ELSE {"sent", "raised"}

Subject(kind) == CASE kind = "create" -> "Task created"
                   [] kind = "mark_done" -> "Task completed"
                   [] OTHER -> "Task reactivated"

\* ------------------------------------------------------------- history helpers
\* seqw[u]: the last committed write of user u. w is the slot of the writing
\* request while it runs and Returned once it has answered; rd is the slot of the
\* list request that arrived next, 0 before it arrives.
Returned == 0 - 1

NoSeq == [w |-> 0, rd |-> 0, tid |-> 0, kind |-> "", was |-> ""]

Max(a, b) == IF a >= b THEN a ELSE b

\* A step of request r for user u that is neither the write seqw[u] records nor
\* the list that follows it is another request in between: the record is dropped.
SeqStep(r, u) == [seqw EXCEPT ![u] = IF @.w = r \/ @.rd = r THEN @ ELSE NoSeq]

\* Request r of user u answers: the record stays only if r is its write.
SeqReturn(r, u) == [seqw EXCEPT ![u] = IF @.w = r /\ @.rd = 0
                                       THEN [@ EXCEPT !.w = Returned] ELSE NoSeq]

\* The record a list request r of user u closes when it answers.
SeqOf(r, u) == IF seqw[u].rd = r THEN seqw[u] ELSE NoSeq

\* The record a list request r of user u opens when it arrives: it follows the
\* write if that has returned and no request of u has arrived since.
SeqArrive(r, u) == IF seqw[u].w = Returned /\ seqw[u].rd = 0
                   THEN [seqw[u] EXCEPT !.rd = r] ELSE NoSeq

NoCall == [kind |-> "", cookie |-> <<>>, tid |-> 0, title |-> "", email |-> <<>>]

\* No response was sent by the last step.
NoOut == [r |-> 0, call |-> NoCall, uid |-> <<>>, resp |-> NoResp, rowcount |-> 0,
          ver |-> 0, need |-> 0, late |-> FALSE, seq |-> NoSeq]

\* ------------------------------------------------------------- User Service
ACCESS_TOKEN_EXPIRE_MINUTES == 30

\* create_access_token's timedelta(minutes=15) when no expires_delta is given
DefaultExpireMinutes == 15

SECRET_KEY == "your-secret-key-change-in-production"

\* The users table when the service starts: the rows of earlier registrations.
\* get_password_hash / verify_password: bcrypt, which verifies exactly the
\* password that was hashed.
GetPasswordHash(password) == <<"bcrypt", password>>

VerifyPassword(plain_password, hashed_password) ==
    hashed_password = GetPasswordHash(plain_password)

RegisteredUsers == {[id |-> 1, username |-> "alice", email |-> "a@x.com",
                     password_hash |-> GetPasswordHash("p1")]}

\* UserCreate and UserLogin bodies (a login carries no username).
NoBody == [username |-> "", email |-> "", password |-> ""]


\* A token is the claims and the key its HS256 signature was made with; ttl and
\* iat record the expires_delta and the time of minting (history, not claims).
NoToken == [sub |-> <<>>, exp |-> 0, key |-> "", ttl |-> <<>>, iat |-> 0]

\* No response was sent by the last step. taken and created are history: a row
\* of another registration held the body's username or email when the handler
\* answered; the handler added a row.
NoReply == [op |-> "", body |-> NoBody, status |-> 0, detail |-> "", token |-> NoToken,
            taken |-> FALSE, created |-> FALSE]

NoVerdict == [kind |-> "", status |-> 0, detail |-> "", user |-> <<>>, token |-> NoToken]

\* timedelta.__bool__: timedelta(0) is falsy, like None (<<>>).
TimedeltaTruthy(expires_delta) == expires_delta # <<>> /\ expires_delta[1] # 0

\* create_access_token(data, expires_delta): jwt.encode writes exp as whole
\* time units since the epoch.
CreateAccessToken(data, expires_delta) ==
    [sub |-> data, key |-> SECRET_KEY,
     exp |-> IF TimedeltaTruthy(expires_delta) THEN now + expires_delta[1]
             ELSE now + DefaultExpireMinutes,
     ttl |-> expires_delta, iat |-> now]

\* jose.jwt.decode(token, SECRET_KEY, algorithms=[ALGORITHM]): the signature
\* (JWTError), then exp < now (ExpiredSignatureError), then sub, which must be a
\* string (JWTClaimsError). Both errors are JWTErrors.
JwtDecode(tok) ==
    IF tok.key # SECRET_KEY THEN "JWTError"
    ELSE IF tok.exp < now THEN "ExpiredSignatureError"
    ELSE IF tok.sub # <<>> /\ tok.sub[1] # "str" THEN "JWTClaimsError"
    ELSE "payload"

\* The failure kinds of verify: Expired for a valid signature whose expiry has
\* passed, Invalid for every other failure.
Kind(decoded) == CASE decoded = "payload" -> "Valid"
                   [] decoded = "ExpiredSignatureError" -> "Expired"
                   [] OTHER -> "Invalid"

CredentialsException == [status |-> 401, detail |-> "Could not validate credentials"]

\* get_current_user: every JWTError and a missing sub are the same 401; the
\* users row is then fetched by id, and asyncpg refuses a str for the integer
\* parameter $1 (DataError, a 500).
GetCurrentUser(tok) ==
    LET decoded == JwtDecode(tok)
    IN IF decoded # "payload" \/ tok.sub = <<>>
       THEN [kind |-> Kind(decoded), status |-> 401, detail |-> CredentialsException.detail,
             user |-> <<>>, token |-> tok]
       ELSE IF tok.sub[1] = "str"
            THEN [kind |-> "Valid", status |-> 500, detail |-> "Internal Server Error",
                  user |-> <<>>, token |-> tok]
            ELSE IF \E u \in users : u.id = tok.sub[2]
                 THEN [kind |-> "Valid", status |-> 200, detail |-> "",
                       user |-> <<tok.sub[2]>>, token |-> tok]
                 ELSE [kind |-> "Valid", status |-> 401,
                       detail |-> CredentialsException.detail, user |-> <<>>, token |-> tok]

\* SMTP_HOST: "" (the default) or a host name.
SmtpHosts == {"", "smtp.example.com"}

\* The tasks table when the service starts: empty, or holding the open task an
\* earlier run of the service committed for user 1.
InitialTasks ==
    {<<>>,
     <<[id |-> 1, user_id |-> 1, title |-> "buy milk", status |-> "open",
        created_at |-> <<"datetime", 0>>, updated_at |-> <<"datetime", 0>>]>>}

InitState(host, table) ==
    /\ sessions = InitialSessions
    /\ cache = <<>>
    /\ tasks = table
    /\ nextId = Len(table) + 1
    /\ dbTime = 0
    /\ began = [r \in Slots |-> 0]
    /\ smtpHost = host
    /\ outbox = {}
    /\ pc = [r \in Slots |-> "idle"]
    /\ call = [r \in Slots |-> NoCall]
    /\ uid = [r \in Slots |-> <<>>]
    /\ rows = [r \in Slots |-> <<>>]
    /\ rowcount = [r \in Slots |-> 0]
    /\ out = NoOut
    /\ commits = [u \in Users |-> 0]
    /\ returned = [u \in Users |-> 0]
    /\ cacheVer = [u \in Users |-> 0]
    /\ cacheLate = [u \in Users |-> FALSE]
    /\ ver = [r \in Slots |-> 0]
    /\ need = [r \in Slots |-> 0]
    /\ seqw = [u \in Users |-> NoSeq]
    /\ now = 0
    /\ users = RegisteredUsers
    /\ token = NoToken
    /\ verdict = NoVerdict
    /\ upc = [r \in Slots |-> "idle"]
    /\ ucall = [r \in Slots |-> NoBody]
    /\ regId = [r \in Slots |-> 0]
    /\ dbUser = [r \in Slots |-> <<>>]
    /\ reply = NoReply
    /\ nextUid = Cardinality(RegisteredUsers) + 1
    /\ holder = 0
    /\ clock = 0
    /\ expireAt = [u \in Users |-> 0]
    /\ order = <<>>
    /\ commitAt = [u \in Users |-> <<>>]
    /\ startAt = [r \in Slots |-> 0]
    /\ pend = [u \in Users |-> 0]
    /\ nxt = [r \in Slots |-> 0]

\* The service as deployed by default: SMTP_HOST is not set.
Init == \E table \in InitialTasks : InitState("", table)

\* ------------------------------------------------------------- requests
\* A request is a sequence of accesses to shared state and each action below is
\* one of them: get_user_id's GET of the session key (Reject, Arrive), then the
\* accesses of the handler.
User(r) == uid[r][1]

ToEmail(r) == IF call[r].email = <<>> THEN "" ELSE call[r].email[1]

CallInputs(cookies, emails) ==
    {[kind |-> "list", cookie |-> c, tid |-> 0, title |-> "", email |-> <<>>] : c \in cookies}
    \cup {[kind |-> "create", cookie |-> c, tid |-> 0, title |-> t, email |-> e] :
            c \in cookies, t \in Titles, e \in emails}
    \cup {[kind |-> k, cookie |-> c, tid |-> t, title |-> "", email |-> e] :
            k \in {"mark_done", "reactivate"}, c \in cookies, t \in TaskIds, e \in emails}
    \cup {[kind |-> "delete_task", cookie |-> c, tid |-> t, title |-> "", email |-> <<>>] :
            c \in cookies, t \in TaskIds}

\* The response to request r with inputs c, authenticated as u (<<>> if not).
\* The history part: rc is the statement's rowcount, v the commit number of what
\* is returned, nd the request's `need`, sq the seqw record a list closes.
Out(r, c, u, response, rc, v, nd, isLate, sq) ==
    [r |-> r, call |-> c, uid |-> u, resp |-> response, rowcount |-> rc,
     ver |-> v, need |-> nd, late |-> isLate, seq |-> sq]

\* The handler of slot r has returned or raised: the slot is free again.
Free(r) ==
    /\ pc' = [pc EXCEPT ![r] = "idle"]
    /\ call' = [call EXCEPT ![r] = NoCall]
    /\ uid' = [uid EXCEPT ![r] = <<>>]
    /\ rows' = [rows EXCEPT ![r] = <<>>]
    /\ rowcount' = [rowcount EXCEPT ![r] = 0]
    /\ ver' = [ver EXCEPT ![r] = 0]
    /\ need' = [need EXCEPT ![r] = 0]

\* The handler of slot r goes on to its next access.
Goto(r, in, user_id, label) ==
    /\ pc' = [pc EXCEPT ![r] = label]
    /\ call' = [call EXCEPT ![r] = in]
    /\ uid' = [uid EXCEPT ![r] = <<user_id>>]

\* A request is taken in by a free worker; the workers are interchangeable and
\* the model hands the request to the free slot of the lowest number.
Idle(r) == pc[r] = "idle" /\ \A q \in Slots : q < r => pc[q] # "idle"

\* The dependency get_user_id raises: the request is answered 401 and no handler
\* runs. The dependency reads the cookie and nothing else of the request.
Reject(r, kind, cookie) ==
    /\ Idle(r)
    /\ ~GetUserId(cookie).ok
    /\ out' = Out(r, [NoCall EXCEPT !.kind = kind, !.cookie = cookie], <<>>,
                  GetUserId(cookie).error, 0, 0, 0, FALSE, NoSeq)
    /\ UNCHANGED <<sessions, cache, tasks, nextId, dbTime, began, smtpHost, outbox,
                   pc, call, uid, rows, rowcount, histVars>>

\* The dependency get_user_id returns the user id: the handler of the route
\* (kind) is called with it. The session key is not read again.
Arrive(r, kind, cookie) ==
    /\ Idle(r)
    /\ GetUserId(cookie).ok
    /\ Goto(r, [NoCall EXCEPT !.kind = kind, !.cookie = cookie],
            GetUserId(cookie).user_id, "authed")
    /\ out' = NoOut
    /\ UNCHANGED <<sessions, cache, tasks, nextId, dbTime, began, smtpHost, outbox,
                   rows, rowcount, histVars>>

\* The handler of a request with inputs `in` makes its first access in slot r:
\* get_user_id has returned for the request in an earlier step (Arrive), or it
\* does in this one. Where no step writes or evicts a session key the two are
\* the same behaviours, get_user_id's GET being the only read of the key.
Entered(r, in) ==
    IF pc[r] = "authed"
    THEN call[r].kind = in.kind /\ call[r].cookie = in.cookie
    ELSE Idle(r) /\ GetUserId(in.cookie).ok

\* The user_id get_user_id returned to that handler.
Caller(r, in) == IF pc[r] = "authed" THEN User(r) ELSE GetUserId(in.cookie).user_id

\* list_tasks: cached = redis_client.get(key); a hit is returned as it is.
ListTasks(r, in) ==
    /\ in.kind = "list"
    /\ Entered(r, in)
    /\ LET user_id == Caller(r, in)
           key == CacheKeyTasks(user_id)
           cached == RedisGet(cache, key)
       IN IF Truthy(cached)
          THEN /\ out' = Out(r, in, <<user_id>>, Response(200, JsonLoads(cached)), 0,
                             cacheVer[key], returned[user_id], cacheLate[key],
                             SeqArrive(r, user_id))
               /\ seqw' = [seqw EXCEPT ![user_id] = NoSeq]
               /\ Free(r)
          ELSE /\ Goto(r, in, user_id, "sql")
               /\ need' = [need EXCEPT ![r] = returned[user_id]]
               /\ seqw' = [seqw EXCEPT ![user_id] = SeqArrive(r, user_id)]
               /\ out' = NoOut
               /\ UNCHANGED <<rows, rowcount, ver>>
    /\ UNCHANGED <<sessions, cache, tasks, nextId, dbTime, began, smtpHost, outbox,
                   commits, returned, cacheVer, cacheLate>>

\* list_tasks: the SELECT, in its own transaction.
SqlSelect(r) ==
    /\ pc[r] = "sql"
    /\ rows' = [rows EXCEPT ![r] = SelectTasks(User(r))]
    /\ rowcount' = [rowcount EXCEPT ![r] = Len(SelectTasks(User(r)))]
    /\ ver' = [ver EXCEPT ![r] = commits[User(r)]]
    /\ pc' = [pc EXCEPT ![r] = "setex"]
    /\ out' = NoOut
    /\ need' = [need EXCEPT ![r] = IF commits[User(r)] >= @ THEN 0 ELSE @]
    /\ seqw' = SeqStep(r, User(r))
    /\ UNCHANGED <<sessions, cache, tasks, nextId, dbTime, began, smtpHost, outbox, call, uid,
                   commits, returned, cacheVer, cacheLate>>

\* list_tasks: the SELECT fails (connection lost, statement error) and the
\* exception leaves the handler: FastAPI answers 500.
SqlFails(r) ==
    /\ pc[r] = "sql"
    /\ out' = Out(r, call[r], uid[r], InternalServerError, 0, 0, need[r], FALSE, NoSeq)
    /\ Free(r)
    /\ seqw' = SeqReturn(r, User(r))
    /\ UNCHANGED <<sessions, cache, tasks, nextId, dbTime, began, smtpHost, outbox,
                   commits, returned, cacheVer, cacheLate>>

\* list_tasks: redis_client.setex(key, 30, json.dumps(rows, default=str)); return rows.
SetEx(r) ==
    /\ pc[r] = "setex"
    /\ cache' = RedisSet(cache, CacheKeyTasks(User(r)), JsonDumps(rows[r]))
    /\ cacheVer' = [cacheVer EXCEPT ![CacheKeyTasks(User(r))] = ver[r]]
    /\ cacheLate' = [cacheLate EXCEPT ![CacheKeyTasks(User(r))] = ver[r] < commits[User(r)]]
    /\ out' = Out(r, call[r], uid[r], Response(200, rows[r]), rowcount[r], ver[r], need[r],
                  FALSE, SeqOf(r, User(r)))
    /\ Free(r)
    /\ seqw' = SeqReturn(r, User(r))
    /\ UNCHANGED <<sessions, tasks, nextId, dbTime, began, smtpHost, outbox, commits, returned>>

\* What every committed write of request r, of user user_id, records.
Committed(r, user_id, tid, kind, was) ==
    /\ commits' = [commits EXCEPT ![user_id] = @ + 1]
    /\ ver' = [ver EXCEPT ![r] = commits[user_id] + 1]
    /\ seqw' = [seqw EXCEPT ![user_id] =
                  [w |-> r, rd |-> 0, tid |-> tid, kind |-> kind, was |-> was]]

\* A write handler runs inside `with engine.begin() as conn:`: the transaction
\* begins, the handler's statement runs in it and the transaction commits when
\* the block ends, three steps. NOW() is the time the transaction began,
\* whenever its statement runs.

\* The INSERTs of transactions that have begun and not yet taken their id.
PendingInserts == {q \in Slots : pc[q] = "begun" /\ call[q].kind = "create"}

\* create_task, mark_done, reactivate, delete_task: engine.begin(), the BEGIN of
\* the handler's transaction; the task store's clock has moved on since the
\* last BEGIN. (A create begins only if the sequence has an id left for it.)
Begin(r, in) ==
    /\ in.kind # "list"
    /\ Entered(r, in)
    /\ dbTime < MaxCommits
    /\ in.kind = "create" => nextId + Cardinality(PendingInserts) <= MaxTasks
    /\ Goto(r, in, Caller(r, in), "begun")
    /\ began' = [began EXCEPT ![r] = dbTime + 1]
    /\ dbTime' = dbTime + 1
    /\ seqw' = SeqStep(r, Caller(r, in))
    /\ out' = NoOut
    /\ UNCHANGED <<sessions, cache, tasks, nextId, smtpHost, outbox, rows, rowcount,
                   commits, returned, cacheVer, cacheLate, ver, need>>

\* create_task: INSERT ... RETURNING. The id is the next value of the sequence,
\* created_at and updated_at are NOW(); the row is the transaction's own until
\* the commit.
CreateTask(r) ==
    /\ pc[r] = "begun"
    /\ call[r].kind = "create"
    /\ rows' = [rows EXCEPT ![r] =
                  <<[id |-> nextId, user_id |-> User(r), title |-> call[r].title,
                     status |-> "open", created_at |-> <<"datetime", began[r]>>,
                     updated_at |-> <<"datetime", began[r]>>]>>]
    /\ rowcount' = [rowcount EXCEPT ![r] = 1]
    /\ nextId' = nextId + 1
    /\ pc' = [pc EXCEPT ![r] = "commit"]
    /\ seqw' = SeqStep(r, User(r))
    /\ out' = NoOut
    /\ UNCHANGED <<sessions, cache, tasks, dbTime, began, smtpHost, outbox, call, uid,
                   commits, returned, cacheVer, cacheLate, ver, need>>

\* The row lock an UPDATE or DELETE holds from its statement to its commit: a
\* statement of another transaction that matches the row waits for it, and then
\* sees the row as the commit left it.
Locked(tid) ==
    \E q \in Slots : pc[q] = "commit" /\ call[q].kind # "create" /\ call[q].tid = tid

\* (mutant) the two handlers' SET clauses swapped
NewStatusSwapped(kind) == IF kind = "mark_done" THEN "open" ELSE "done"

\* SET status = 'done' (mark_done), SET status = 'open' (reactivate)
NewStatus(kind) == IF kind = "mark_done" THEN "done" ELSE "open"

\* mark_done, reactivate: UPDATE ... SET status, updated_at = NOW()
\* WHERE id = :tid AND user_id = :uid RETURNING; no row raises 404 inside the
\* with block (the transaction is rolled back), before the invalidation.
UpdateStatus(r) ==
    /\ pc[r] = "begun"
    /\ call[r].kind \in {"mark_done", "reactivate"}
    /\ LET hit == WhereIdAndUser(call[r].tid, User(r))
       IN IF hit = {}
          THEN /\ out' = Out(r, call[r], uid[r], HTTPException(404, "Task not found"),
                             0, 0, 0, FALSE, NoSeq)
               /\ seqw' = [seqw EXCEPT ![User(r)] = NoSeq]
               /\ Free(r)
               /\ began' = [began EXCEPT ![r] = 0]
          ELSE /\ ~Locked(call[r].tid)
               /\ rows' = [rows EXCEPT ![r] =
                             <<[tasks[call[r].tid] EXCEPT
                                  !.status = NewStatus(call[r].kind),
                                  !.updated_at = <<"datetime", began[r]>>]>>]
               /\ rowcount' = [rowcount EXCEPT ![r] = 1]
               /\ pc' = [pc EXCEPT ![r] = "commit"]
               /\ out' = NoOut
               /\ seqw' = SeqStep(r, User(r))
               /\ UNCHANGED <<began, call, uid, ver, need>>
    /\ UNCHANGED <<sessions, cache, tasks, nextId, dbTime, smtpHost, outbox,
                   commits, returned, cacheVer, cacheLate>>

MarkDone(r) == call[r].kind = "mark_done" /\ UpdateStatus(r)

Reactivate(r) == call[r].kind = "reactivate" /\ UpdateStatus(r)

\* delete_task: DELETE ... WHERE id = :tid AND user_id = :uid; result.rowcount is
\* not read and the handler goes on to the invalidation. The commit of a
\* transaction that deleted no row changes nothing and is no step of its own.
DeleteTask(r) ==
    /\ pc[r] = "begun"
    /\ call[r].kind = "delete_task"
    /\ LET hit == WhereIdAndUser(call[r].tid, User(r))
       IN /\ rowcount' = [rowcount EXCEPT ![r] = Cardinality(hit)]
          /\ IF hit = {}
             THEN /\ pc' = [pc EXCEPT ![r] = "invalidate"]
                  /\ began' = [began EXCEPT ![r] = 0]
                  /\ seqw' = [seqw EXCEPT ![User(r)] = NoSeq]
             ELSE /\ ~Locked(call[r].tid)
                  /\ pc' = [pc EXCEPT ![r] = "commit"]
                  /\ seqw' = SeqStep(r, User(r))
                  /\ UNCHANGED began
    /\ out' = NoOut
    /\ UNCHANGED <<sessions, cache, tasks, nextId, dbTime, smtpHost, outbox, call, uid, rows,
                   commits, returned, cacheVer, cacheLate, ver, need>>

\* create_task, mark_done, reactivate, delete_task: the with block ends and the
\* transaction commits; its effect is in the table from here on.
Commit(r) ==
    /\ pc[r] = "commit"
    /\ tasks' = CASE call[r].kind = "create" -> RedisSet(tasks, rows[r][1].id, rows[r][1])
                  [] call[r].kind = "delete_task" ->
                        [t \in DOMAIN tasks \ {call[r].tid} |-> tasks[t]]
                  [] OTHER -> [tasks EXCEPT ![call[r].tid] = rows[r][1]]
    /\ pc' = [pc EXCEPT ![r] = "invalidate"]
    /\ began' = [began EXCEPT ![r] = 0]
    /\ Committed(r, User(r), IF call[r].kind = "create" THEN rows[r][1].id ELSE call[r].tid,
                 call[r].kind,
                 IF call[r].kind = "create" THEN "" ELSE tasks[call[r].tid].status)
    /\ out' = NoOut
    /\ UNCHANGED <<sessions, cache, nextId, dbTime, smtpHost, outbox, call, uid, rows, rowcount,
                   returned, cacheVer, cacheLate, need>>

\* create_task, mark_done, reactivate, delete_task: the statement or the commit
\* fails (the connection is lost, the statement is refused), the transaction is
\* rolled back and the exception leaves the handler. The value an INSERT took
\* from the sequence is not given back.
CommitFails(r) ==
    /\ pc[r] \in {"begun", "commit"}
    /\ out' = Out(r, call[r], uid[r], InternalServerError, 0, 0, 0, FALSE, NoSeq)
    /\ Free(r)
    /\ began' = [began EXCEPT ![r] = 0]
    /\ seqw' = [seqw EXCEPT ![User(r)] = NoSeq]
    /\ UNCHANGED <<sessions, cache, tasks, nextId, dbTime, smtpHost, outbox,
                   commits, returned, cacheVer, cacheLate>>

\* create_task, mark_done, reactivate, delete_task: engine.begin() fails (no
\* connection to the task store) and the exception leaves the handler.
WriteFails(r, in) ==
    /\ in.kind # "list"
    /\ Entered(r, in)
    /\ LET user_id == Caller(r, in)
       IN /\ out' = Out(r, in, <<user_id>>, InternalServerError, 0, 0, 0, FALSE, NoSeq)
          /\ seqw' = [seqw EXCEPT ![user_id] = NoSeq]
    /\ Free(r)
    /\ UNCHANGED <<sessions, cache, tasks, nextId, dbTime, began, smtpHost, outbox,
                   commits, returned, cacheVer, cacheLate>>

\* (mutant) UPDATE without RETURNING: the row is read again when the handler returns
ReturnsReread(r) ==
    /\ out' = Out(r, call[r], uid[r],
                  IF call[r].kind = "delete_task" THEN Response(204, <<>>)
                  ELSE Response(IF call[r].kind = "create" THEN 201 ELSE 200,
                                IF rows[r][1].id \in DOMAIN tasks
                                THEN <<tasks[rows[r][1].id]>> ELSE rows[r]),
                  rowcount[r], ver[r], 0, FALSE, NoSeq)
    /\ Free(r)
    /\ returned' = [returned EXCEPT ![User(r)] = Max(@, ver[r])]
    /\ seqw' = SeqReturn(r, User(r))

\* The response of a write handler that has reached its return statement.
Returns(r) ==
    /\ out' = Out(r, call[r], uid[r],
                  IF call[r].kind = "delete_task" THEN Response(204, <<>>)
                  ELSE Response(IF call[r].kind = "create" THEN 201 ELSE 200, rows[r]),
                  rowcount[r], ver[r], 0, FALSE, NoSeq)
    /\ Free(r)
    /\ returned' = [returned EXCEPT ![User(r)] = Max(@, ver[r])]
    /\ seqw' = SeqReturn(r, User(r))

\* (mutant) the deletion is put off until after the response (a background task)
InvalidateDeferred(r) ==
    /\ pc[r] = "invalidate"
    /\ IF call[r].kind = "delete_task" \/ SendEmailOutcomes(ToEmail(r)) = {"skipped"}
       THEN Returns(r)
       ELSE /\ pc' = [pc EXCEPT ![r] = "notify"]
            /\ out' = NoOut
            /\ seqw' = SeqStep(r, User(r))
            /\ UNCHANGED <<returned, call, uid, rows, rowcount, ver, need>>
    /\ UNCHANGED <<sessions, cache, cacheVer, cacheLate, tasks, nextId, dbTime, began, smtpHost,
                   outbox, commits>>

\* invalidate_tasks_cache(user_id). delete_task then returns; the other handlers
\* call send_email_if_configured, which returns at once without SMTP_HOST or
\* recipient.
Invalidate(r) ==
    /\ pc[r] = "invalidate"
    /\ cache' = InvalidateTasksCache(User(r))
    /\ cacheVer' = [k \in Users |-> IF k \in DOMAIN cache' THEN cacheVer[k] ELSE 0]
    /\ cacheLate' = [k \in Users |-> IF k \in DOMAIN cache' THEN cacheLate[k] ELSE FALSE]
    /\ IF call[r].kind = "delete_task" \/ SendEmailOutcomes(ToEmail(r)) = {"skipped"}
       THEN Returns(r)
       ELSE /\ pc' = [pc EXCEPT ![r] = "notify"]
            /\ out' = NoOut
            /\ seqw' = SeqStep(r, User(r))
            /\ UNCHANGED <<returned, call, uid, rows, rowcount, ver, need>>
    /\ UNCHANGED <<sessions, tasks, nextId, dbTime, began, smtpHost, outbox, commits>>

\* (mutant) no try/except around the send: an SMTP failure leaves the handler
NotifyPropagates(r) ==
    /\ pc[r] = "notify"
    /\ \E outcome \in SendEmailOutcomes(ToEmail(r)) :
          IF outcome = "sent"
          THEN /\ outbox' = outbox \cup {[to |-> ToEmail(r), subject |-> Subject(call[r].kind),
                                          title |-> rows[r][1].title]}
               /\ Returns(r)
          ELSE /\ out' = Out(r, call[r], uid[r], InternalServerError, rowcount[r], ver[r],
                             0, FALSE, NoSeq)
               /\ Free(r)
               /\ seqw' = SeqReturn(r, User(r))
               /\ UNCHANGED <<outbox, returned>>
    /\ UNCHANGED <<sessions, cache, tasks, nextId, dbTime, began, smtpHost,
                   commits, cacheVer, cacheLate>>

\* create_task, mark_done, reactivate: the SMTP exchange of the best-effort
\* email, inside try/except, then return row.
Notify(r) ==
    /\ pc[r] = "notify"
    /\ \E outcome \in SendEmailOutcomes(ToEmail(r)) :
          outbox' = IF outcome = "sent"
                    THEN outbox \cup {[to |-> ToEmail(r), subject |-> Subject(call[r].kind),
                                       title |-> rows[r][1].title]}
                    ELSE outbox
    /\ Returns(r)
    /\ UNCHANGED <<sessions, cache, tasks, nextId, dbTime, began, smtpHost,
                   commits, cacheVer, cacheLate>>

\* Redis evicts tasks:<user_id> when the 30 seconds of its setex have passed.
CacheExpires(u) ==
    /\ u \in DOMAIN cache
    /\ cache' = RedisDelete(cache, u)
    /\ cacheVer' = [cacheVer EXCEPT ![u] = 0]
    /\ cacheLate' = [cacheLate EXCEPT ![u] = FALSE]
    /\ out' = NoOut
    /\ UNCHANGED <<sessions, tasks, nextId, dbTime, began, smtpHost, outbox, pc, call, uid, rows,
                   rowcount, commits, returned, ver, need, seqw>>

\* Redis evicts sid:<session_id> when the ttl its writer set has passed.
SessionExpires(s) ==
    /\ s \in DOMAIN sessions
    /\ sessions' = RedisDelete(sessions, s)
    /\ out' = NoOut
    /\ UNCHANGED <<cache, tasks, nextId, dbTime, began, smtpHost, outbox, pc, call, uid, rows,
                   rowcount, histVars>>

\* The client has received the response.
Deliver ==
    /\ out # NoOut
    /\ out' = NoOut
    /\ UNCHANGED <<sessions, cache, tasks, nextId, dbTime, began, smtpHost, outbox, pc, call, uid,
                   rows, rowcount, histVars>>

\* ------------------------------------------------------------- specifications
LiveCookies == {<<"s1">>, <<"s2">>}

AuthInputs == CallInputs(LiveCookies, {<<>>})

AllInputs == CallInputs(Cookies, Emails)

\* `out` shows one response at a time: the step after a response is its delivery.
Quiet == out = NoOut

\* Concurrent requests of authenticated users against a task store that
\* answers, SMTP_HOST not set (no handler reaches the SMTP server).
Next ==
    \/ \E r \in Req, in \in AuthInputs : Quiet /\ ListTasks(r, in) /\ UNCHANGED <<userVars, timeVars, raceVars>>
    \/ \E r \in Req : Quiet /\ SqlSelect(r) /\ UNCHANGED <<userVars, timeVars, raceVars>>
    \/ \E r \in Req : Quiet /\ SetEx(r) /\ UNCHANGED <<userVars, timeVars, raceVars>>
    \/ \E r \in Req, in \in AuthInputs : Quiet /\ Begin(r, in) /\ UNCHANGED <<userVars, timeVars, raceVars>>
    \/ \E r \in Req : Quiet /\ CreateTask(r) /\ UNCHANGED <<userVars, timeVars, raceVars>>
    \/ \E r \in Req : Quiet /\ MarkDone(r) /\ UNCHANGED <<userVars, timeVars, raceVars>>
    \/ \E r \in Req : Quiet /\ Reactivate(r) /\ UNCHANGED <<userVars, timeVars, raceVars>>
    \/ \E r \in Req : Quiet /\ DeleteTask(r) /\ UNCHANGED <<userVars, timeVars, raceVars>>
    \/ \E r \in Req : Quiet /\ Commit(r) /\ UNCHANGED <<userVars, timeVars, raceVars>>
    \/ \E r \in Req : Quiet /\ Invalidate(r) /\ UNCHANGED <<userVars, timeVars, raceVars>>
    \/ \E u \in Users : Quiet /\ CacheExpires(u) /\ UNCHANGED <<userVars, timeVars, raceVars>>
    \/ Deliver /\ UNCHANGED <<userVars, timeVars, raceVars>>

Spec == Init /\ [][Next]_vars

\* One authenticated request at a time, with or without the X-User-Email
\* header and with or without SMTP_HOST, while the task store may fail. No
\* session key is written or evicted.
MailInputs == CallInputs(LiveCookies, Emails)

InitOne == \E host \in SmtpHosts, table \in InitialTasks : InitState(host, table)

NextOne ==
    \/ \E in \in MailInputs : Quiet /\ ListTasks(1, in) /\ UNCHANGED <<userVars, timeVars, raceVars>>
    \/ Quiet /\ SqlSelect(1) /\ UNCHANGED <<userVars, timeVars, raceVars>>
    \/ Quiet /\ SqlFails(1) /\ UNCHANGED <<userVars, timeVars, raceVars>>
    \/ Quiet /\ SetEx(1) /\ UNCHANGED <<userVars, timeVars, raceVars>>
    \/ \E in \in MailInputs : Quiet /\ Begin(1, in) /\ UNCHANGED <<userVars, timeVars, raceVars>>
    \/ Quiet /\ CreateTask(1) /\ UNCHANGED <<userVars, timeVars, raceVars>>
    \/ Quiet /\ MarkDone(1) /\ UNCHANGED <<userVars, timeVars, raceVars>>
    \/ Quiet /\ Reactivate(1) /\ UNCHANGED <<userVars, timeVars, raceVars>>
    \/ Quiet /\ DeleteTask(1) /\ UNCHANGED <<userVars, timeVars, raceVars>>
    \/ \E in \in MailInputs : Quiet /\ WriteFails(1, in) /\ UNCHANGED <<userVars, timeVars, raceVars>>
    \/ Quiet /\ Commit(1) /\ UNCHANGED <<userVars, timeVars, raceVars>>
    \/ Quiet /\ CommitFails(1) /\ UNCHANGED <<userVars, timeVars, raceVars>>
    \/ Quiet /\ Invalidate(1) /\ UNCHANGED <<userVars, timeVars, raceVars>>
    \/ Quiet /\ Notify(1) /\ UNCHANGED <<userVars, timeVars, raceVars>>
    \/ \E u \in Users : Quiet /\ CacheExpires(u) /\ UNCHANGED <<userVars, timeVars, raceVars>>
    \/ Deliver /\ UNCHANGED <<userVars, timeVars, raceVars>>

SpecOne == InitOne /\ [][NextOne]_vars

\* One request at a time, with every cookie and header a client can send, while
\* the session s1 expires: get_user_id is a step of its own and the key it read
\* may be evicted before the handler makes its first access. SMTP_HOST is set
\* and the task store answers.
InitSession == \E table \in InitialTasks : InitState("smtp.example.com", table)

NextSession ==
    \/ \E kind \in Kinds, cookie \in Cookies : Quiet /\ Reject(1, kind, cookie) /\ UNCHANGED <<userVars, timeVars, raceVars>>
    \/ \E kind \in Kinds, cookie \in Cookies : Quiet /\ Arrive(1, kind, cookie) /\ UNCHANGED <<userVars, timeVars, raceVars>>
    \/ \E in \in AllInputs : Quiet /\ pc[1] = "authed" /\ ListTasks(1, in) /\ UNCHANGED <<userVars, timeVars, raceVars>>
    \/ Quiet /\ SqlSelect(1) /\ UNCHANGED <<userVars, timeVars, raceVars>>
    \/ Quiet /\ SetEx(1) /\ UNCHANGED <<userVars, timeVars, raceVars>>
    \/ \E in \in AllInputs : Quiet /\ pc[1] = "authed" /\ Begin(1, in) /\ UNCHANGED <<userVars, timeVars, raceVars>>
    \/ Quiet /\ CreateTask(1) /\ UNCHANGED <<userVars, timeVars, raceVars>>
    \/ Quiet /\ MarkDone(1) /\ UNCHANGED <<userVars, timeVars, raceVars>>
    \/ Quiet /\ Reactivate(1) /\ UNCHANGED <<userVars, timeVars, raceVars>>
    \/ Quiet /\ DeleteTask(1) /\ UNCHANGED <<userVars, timeVars, raceVars>>
    \/ Quiet /\ Commit(1) /\ UNCHANGED <<userVars, timeVars, raceVars>>
    \/ Quiet /\ Invalidate(1) /\ UNCHANGED <<userVars, timeVars, raceVars>>
    \/ Quiet /\ Notify(1) /\ UNCHANGED <<userVars, timeVars, raceVars>>
    \/ \E s \in WithTtl : Quiet /\ SessionExpires(s) /\ UNCHANGED <<userVars, timeVars, raceVars>>
    \/ Deliver /\ UNCHANGED <<userVars, timeVars, raceVars>>

SpecSession == InitSession /\ [][NextSession]_vars

\* ------------------------------------------------------------- User Service steps
Subjects == {<<>>, <<"int", 1>>, <<"str", "1">>}

Deltas == {<<>>, <<0>>, <<1>>, <<ACCESS_TOKEN_EXPIRE_MINUTES>>}

Tick ==
    /\ now < MaxNow
    /\ now' = now + 1
    /\ verdict' = NoVerdict
    /\ reply' = NoReply
    /\ UNCHANGED <<users, token, upc, ucall, regId, dbUser, nextUid, holder, progVars, histVars, timeVars, raceVars>>

\* The issuer mints a token: create_access_token(data={"sub": ...}, expires_delta).
Mint(data, expires_delta) ==
    /\ token' = CreateAccessToken(data, expires_delta)
    /\ verdict' = NoVerdict
    /\ UNCHANGED <<now, users, regVars, progVars, histVars, timeVars, raceVars>>

\* A request presents the token, as minted or signed with another key, to an
\* endpoint that depends on get_current_user.
Verify(key) ==
    /\ token # NoToken
    /\ verdict' = GetCurrentUser([token EXCEPT !.key = key])
    /\ reply' = NoReply
    /\ UNCHANGED <<now, users, token, upc, ucall, regId, dbUser, nextUid, holder, progVars, histVars, timeVars, raceVars>>

NextUser ==
    \/ Tick
    \/ \E data \in Subjects, d \in Deltas : Mint(data, d)
    \/ \E key \in {SECRET_KEY, "another key"} : Verify(key)

InitUser == InitState("", <<>>)

SpecUser == InitUser /\ [][NextUser]_vars

\* ------------------------------------------------------------- cache expiry
SecondsPerTick == 15

CacheTtl == 30       \* redis_client.setex(key, 30, ...)

TtlTicks == CacheTtl \div SecondsPerTick

\* The ticks the clock counts: clock = MaxClock stands for that tick and for
\* every later time.
MaxClock == 3

\* The keys in `kept`, in the order of `seq`.
RECURSIVE Keep(_, _)
Keep(seq, kept) ==
    IF seq = <<>> THEN <<>>
    ELSE IF Head(seq) \in kept THEN <<Head(seq)>> \o Keep(Tail(seq), kept)
    ELSE Keep(Tail(seq), kept)

\* The keys of the cache after a step that wrote the keys in `stored` (at most
\* one), oldest expiry first: a key that is set again goes to the end.
Expiring(stored) ==
    Keep(order, DOMAIN cache' \ stored)
        \o (IF stored = {} THEN <<>> ELSE <<CHOOSE u \in stored : TRUE>>)

\* What a step of a handler does to the expiry of the entries and to the
\* recorded times: setex sets the expiry of the key it writes, and delete
\* removes it with the key. A key written between the ticks c and c + 1 is
\* evicted between the ticks c + TtlTicks and c + TtlTicks + 1.
Timed(stored) ==
    /\ clock' = clock
    /\ expireAt' = [u \in Users |-> IF u \in stored THEN clock + TtlTicks
                                    ELSE IF u \in DOMAIN cache' THEN expireAt[u] ELSE 0]
    /\ order' = Expiring(stored)
    /\ commitAt' = [u \in Users |-> IF commits'[u] # commits[u]
                                    THEN Append(commitAt[u], clock) ELSE commitAt[u]]
    /\ startAt' = [r \in Slots |-> IF pc[r] = "idle" /\ (pc'[r] = "sql" \/ out'.r = r) THEN clock
                                 ELSE IF pc'[r] = "setex" \/ out'.r = r THEN startAt[r]
                                 ELSE 0]

\* (mutant) the listing is stored without a ttl (set, not setex): time passes
\* over the entries
TickNoEviction ==
    /\ clock < MaxClock
    /\ clock' = clock + 1
    /\ UNCHANGED <<progVars, histVars, expireAt, order, commitAt, startAt>>

\* Time passes, a tick of it: no entry is in the cache for longer than the 30
\* seconds of its setex.
TickTtl ==
    /\ clock < MaxClock
    /\ \A u \in DOMAIN cache : clock < expireAt[u]
    /\ clock' = clock + 1
    /\ UNCHANGED <<progVars, histVars, expireAt, order, commitAt, startAt>>

\* Redis evicts tasks:<user_id> when the 30 seconds of its setex have passed:
\* TtlTicks ticks and a part of a tick after it was written, and after the keys
\* that were written before it.
TtlExpires(u) ==
    /\ order # <<>>
    /\ Head(order) = u
    /\ clock >= expireAt[u] \/ clock = MaxClock
    /\ cache' = RedisDelete(cache, u)
    /\ expireAt' = [expireAt EXCEPT ![u] = 0]
    /\ order' = Tail(order)
    /\ cacheVer' = [cacheVer EXCEPT ![u] = 0]
    /\ cacheLate' = [cacheLate EXCEPT ![u] = FALSE]
    /\ out' = NoOut
    /\ UNCHANGED <<sessions, tasks, nextId, dbTime, began, smtpHost, outbox, pc, call, uid,
                   rows, rowcount, commits, returned, ver, need, seqw, clock, commitAt,
                   startAt>>

\* The worker process is killed between the commit of a write and the cache
\* delete: the request is never answered and its invalidation never runs.
Crash(r) ==
    /\ pc[r] = "invalidate"
    /\ Free(r)
    /\ out' = NoOut
    /\ seqw' = [seqw EXCEPT ![User(r)] = NoSeq]
    /\ UNCHANGED <<sessions, cache, tasks, nextId, dbTime, began, smtpHost, outbox,
                   commits, returned, cacheVer, cacheLate>>

\* The requests of one user, whose session is live: lists and status updates.
TtlInputs == {in \in CallInputs({<<"s1">>}, {<<>>}) :
                in.kind \in {"list", "mark_done", "reactivate"}}

\* The requests of one user: lists and mark-done.
HealInputs == {in \in TtlInputs : in.kind \in {"list", "mark_done"}}

\* The service starts with the task an earlier run committed.
InitTtl == \E table \in InitialTasks : table # <<>> /\ InitState("", table)

\* Concurrent lists and mark-done requests of one user while time passes,
\* entries expire and a worker may be killed before its cache delete.
NextTtl ==
    \/ Quiet /\ TickTtl /\ UNCHANGED <<userVars, raceVars>>
    \/ \E u \in Users : Quiet /\ TtlExpires(u) /\ UNCHANGED <<userVars, raceVars>>
    \/ \E r \in Req, in \in HealInputs : Quiet /\ ListTasks(r, in) /\ Timed({}) /\ UNCHANGED <<userVars, raceVars>>
    \/ \E r \in Req : Quiet /\ SqlSelect(r) /\ Timed({}) /\ UNCHANGED <<userVars, raceVars>>
    \/ \E r \in Req : Quiet /\ SetEx(r) /\ Timed({CacheKeyTasks(User(r))}) /\ UNCHANGED <<userVars, raceVars>>
    \/ \E r \in Req, in \in HealInputs : Quiet /\ Begin(r, in) /\ Timed({}) /\ UNCHANGED <<userVars, raceVars>>
    \/ \E r \in Req : Quiet /\ MarkDone(r) /\ Timed({}) /\ UNCHANGED <<userVars, raceVars>>
    \/ \E r \in Req : Quiet /\ Commit(r) /\ Timed({}) /\ UNCHANGED <<userVars, raceVars>>
    \/ \E r \in Req : Quiet /\ Invalidate(r) /\ Timed({}) /\ UNCHANGED <<userVars, raceVars>>
    \/ \E r \in Req : Quiet /\ Crash(r) /\ Timed({}) /\ UNCHANGED <<userVars, raceVars>>
    \/ Deliver /\ Timed({}) /\ UNCHANGED <<userVars, raceVars>>

SpecTtl == InitTtl /\ [][NextTtl]_vars

\* (mutant) a sliding expiry: every hit starts the 30 seconds again
AgedSliding(stored) ==
    /\ clock' = clock
    /\ expireAt' = [u \in Users |-> IF u \in stored \/ (u \in DOMAIN cache' /\ out'.uid = <<u>>)
                                    THEN clock + TtlTicks
                                    ELSE IF u \in DOMAIN cache' THEN expireAt[u] ELSE 0]
    /\ order' = Expiring(stored \cup {u \in DOMAIN cache' : out'.uid = <<u>>})
    /\ UNCHANGED <<commitAt, startAt>>

\* What a step of a handler does to the expiry of the entries, nothing recorded.
Aged(stored) ==
    /\ clock' = clock
    /\ expireAt' = [u \in Users |-> IF u \in stored THEN clock + TtlTicks
                                    ELSE IF u \in DOMAIN cache' THEN expireAt[u] ELSE 0]
    /\ order' = Expiring(stored)
    /\ UNCHANGED <<commitAt, startAt>>

Tock == Quiet /\ TickTtl /\ UNCHANGED <<userVars, raceVars>>

Evict == \E u \in Users : Quiet /\ TtlExpires(u) /\ UNCHANGED <<userVars, raceVars>>

Delivered == Deliver /\ Aged({}) /\ UNCHANGED <<userVars, raceVars>>

\* Lists and mark-done requests of one user and a worker that may be killed
\* before its cache delete, while time passes.
NextHeal ==
    \/ Tock
    \/ Evict
    \/ \E r \in Req, in \in HealInputs :
          Quiet /\ ListTasks(r, in) /\ Aged({}) /\ UNCHANGED <<userVars, raceVars>>
    \/ \E r \in Req : Quiet /\ SqlSelect(r) /\ Aged({}) /\ UNCHANGED <<userVars, raceVars>>
    \/ \E r \in Req :
          Quiet /\ SetEx(r) /\ Aged({CacheKeyTasks(User(r))}) /\ UNCHANGED <<userVars, raceVars>>
    \/ \E r \in Req, in \in HealInputs :
          Quiet /\ Begin(r, in) /\ Aged({}) /\ UNCHANGED <<userVars, raceVars>>
    \/ \E r \in Req : Quiet /\ MarkDone(r) /\ Aged({}) /\ UNCHANGED <<userVars, raceVars>>
    \/ \E r \in Req : Quiet /\ Commit(r) /\ Aged({}) /\ UNCHANGED <<userVars, raceVars>>
    \/ \E r \in Req : Quiet /\ Invalidate(r) /\ Aged({}) /\ UNCHANGED <<userVars, raceVars>>
    \/ \E r \in Req : Quiet /\ Crash(r) /\ Aged({}) /\ UNCHANGED <<userVars, raceVars>>
    \/ Delivered

\* Time passes and Redis evicts what has expired whatever the requests do, and
\* a response that was sent is received.
SpecHeal == InitTtl /\ [][NextHeal]_vars /\ SF_vars(Tock) /\ SF_vars(Evict) /\ WF_vars(Delivered)

\* One request at a time, of either user, while time passes.
NextRead ==
    \/ Tock
    \/ Evict
    \/ \E in \in AuthInputs :
          Quiet /\ ListTasks(1, in) /\ Aged({}) /\ UNCHANGED <<userVars, raceVars>>
    \/ Quiet /\ SqlSelect(1) /\ Aged({}) /\ UNCHANGED <<userVars, raceVars>>
    \/ Quiet /\ SetEx(1) /\ Aged({CacheKeyTasks(User(1))}) /\ UNCHANGED <<userVars, raceVars>>
    \/ \E in \in AuthInputs :
          Quiet /\ Begin(1, in) /\ Aged({}) /\ UNCHANGED <<userVars, raceVars>>
    \/ Quiet /\ CreateTask(1) /\ Aged({}) /\ UNCHANGED <<userVars, raceVars>>
    \/ Quiet /\ DeleteTask(1) /\ Aged({}) /\ UNCHANGED <<userVars, raceVars>>
    \/ Quiet /\ MarkDone(1) /\ Aged({}) /\ UNCHANGED <<userVars, raceVars>>
    \/ Quiet /\ Reactivate(1) /\ Aged({}) /\ UNCHANGED <<userVars, raceVars>>
    \/ Quiet /\ Commit(1) /\ Aged({}) /\ UNCHANGED <<userVars, raceVars>>
    \/ Quiet /\ Invalidate(1) /\ Aged({}) /\ UNCHANGED <<userVars, raceVars>>
    \/ Delivered

SpecRead == Init /\ [][NextRead]_vars

\* ------------------------------------------------------------- three in flight
\* What a step of a handler records about the list that follows an invalidation:
\* the invalidation of a write that finds a listing without the write, stored
\* after the write's commit, opens the record; the next list of the user to
\* arrive takes it.
Raced ==
    /\ pend' = [u \in Users |->
                 IF \E r \in Slots : /\ pc[r] = "invalidate" /\ pc'[r] # "invalidate"
                                      /\ User(r) = u /\ u \in DOMAIN cache
                                      /\ cacheLate[u] /\ cacheVer[u] < ver[r]
                 THEN ver[CHOOSE r \in Slots : pc[r] = "invalidate" /\ pc'[r] # "invalidate"]
                 ELSE IF \E r \in Slots : /\ pc[r] = "idle"
                                           /\ \/ pc'[r] = "sql" /\ User(r)' = u
                                              \/ /\ out'.r = r /\ out'.call.kind = "list"
                                                 /\ out'.resp.status = 200 /\ out'.uid = <<u>>
                      THEN 0
                      ELSE pend[u]]
    /\ nxt' = [r \in Slots |-> IF pc[r] = "idle" /\ pc'[r] = "sql" THEN pend[User(r)']
                               ELSE IF pc'[r] \in {"sql", "setex"} \/ out'.r = r THEN nxt[r]
                               ELSE 0]

\* Lists and status updates of one user, three requests in flight.
NextRace ==
    \/ \E r \in Slots, in \in TtlInputs :
          Quiet /\ ListTasks(r, in) /\ Raced /\ UNCHANGED <<userVars, timeVars>>
    \/ \E r \in Slots : Quiet /\ SqlSelect(r) /\ Raced /\ UNCHANGED <<userVars, timeVars>>
    \/ \E r \in Slots : Quiet /\ SetEx(r) /\ Raced /\ UNCHANGED <<userVars, timeVars>>
    \/ \E r \in Slots, in \in TtlInputs :
          Quiet /\ Begin(r, in) /\ Raced /\ UNCHANGED <<userVars, timeVars>>
    \/ \E r \in Slots : Quiet /\ MarkDone(r) /\ Raced /\ UNCHANGED <<userVars, timeVars>>
    \/ \E r \in Slots : Quiet /\ Reactivate(r) /\ Raced /\ UNCHANGED <<userVars, timeVars>>
    \/ \E r \in Slots : Quiet /\ Commit(r) /\ Raced /\ UNCHANGED <<userVars, timeVars>>
    \/ \E r \in Slots : Quiet /\ Invalidate(r) /\ Raced /\ UNCHANGED <<userVars, timeVars>>
    \/ Deliver /\ Raced /\ UNCHANGED <<userVars, timeVars>>

SpecRace == InitTtl /\ [][NextRace]_vars

\* ------------------------------------------------------------- register, login
MaxUid == 3          \* the last id the SERIAL sequence of users.id hands out

Usernames == {"alice", "bob"}

UserEmails == {"a@x.com", "b@x.com"}

Passwords == {"p1", "p2"}

UserCreate == [username : Usernames, email : UserEmails, password : {"p1"}]

UserLogin == [username : {""}, email : UserEmails, password : Passwords]

\* SELECT id FROM users WHERE email = $1 OR username = $2
ExistingUser(body) == {u \in users : u.email = body.email \/ u.username = body.username}

\* The unique constraints of the users table on username and on email.
UniqueViolation(body) == \E u \in users : u.email = body.email \/ u.username = body.username

Reply(op, body, status_code, detail, tok, taken, created) ==
    [op |-> op, body |-> body, status |-> status_code, detail |-> detail, token |-> tok,
     taken |-> taken, created |-> created]

\* register: the SELECT for an existing user; a row answers 400.
RegisterSelect(r, body) ==
    /\ upc[r] = "idle"
    /\ IF ExistingUser(body) # {}
       THEN /\ reply' = Reply("register", body, 400, "Email or username already registered",
                              NoToken, TRUE, FALSE)
            /\ UNCHANGED <<upc, ucall>>
       ELSE /\ upc' = [upc EXCEPT ![r] = "insert"]
            /\ ucall' = [ucall EXCEPT ![r] = body]
            /\ reply' = NoReply
    /\ verdict' = NoVerdict
    /\ UNCHANGED <<now, users, token, regId, dbUser, nextUid, holder, progVars, histVars,
                   timeVars, raceVars>>

\* register: user_id = await conn.fetchval(INSERT ... RETURNING id). The sequence
\* hands out its value before the constraints are checked; a violation is
\* asyncpg's UniqueViolationError, which leaves the handler: FastAPI answers
\* 500. The row is in the table from here on, while the handler waits to be
\* resumed.
RegisterInsert(r) ==
    /\ upc[r] = "insert"
    /\ nextUid <= MaxUid
    /\ nextUid' = nextUid + 1
    /\ IF UniqueViolation(ucall[r])
       THEN /\ reply' = Reply("register", ucall[r], 500, "Internal Server Error",
                              NoToken, TRUE, FALSE)
            /\ upc' = [upc EXCEPT ![r] = "idle"]
            /\ ucall' = [ucall EXCEPT ![r] = NoBody]
            /\ UNCHANGED <<users, regId>>
       ELSE /\ users' = users \cup {[id |-> nextUid, username |-> ucall[r].username,
                                     email |-> ucall[r].email,
                                     password_hash |-> GetPasswordHash(ucall[r].password)]}
            /\ regId' = [regId EXCEPT ![r] = nextUid]
            /\ upc' = [upc EXCEPT ![r] = "mint"]
            /\ reply' = NoReply
            /\ UNCHANGED ucall
    /\ verdict' = NoVerdict
    /\ UNCHANGED <<now, token, holder, dbUser, progVars, histVars, timeVars, raceVars>>

\* register: the handler is resumed with the id, mints the token with
\* create_access_token(data={"sub": user_id}, ...), which reads the clock now,
\* and answers.
RegisterMint(r) ==
    /\ upc[r] = "mint"
    /\ token' = CreateAccessToken(<<"int", regId[r]>>, <<ACCESS_TOKEN_EXPIRE_MINUTES>>)
    /\ holder' = regId[r]
    /\ reply' = Reply("register", ucall[r], 200, "", token',
                      \E u \in users : /\ u.id # regId[r]
                                        /\ (u.email = ucall[r].email
                                              \/ u.username = ucall[r].username),
                      TRUE)
    /\ upc' = [upc EXCEPT ![r] = "idle"]
    /\ ucall' = [ucall EXCEPT ![r] = NoBody]
    /\ regId' = [regId EXCEPT ![r] = 0]
    /\ verdict' = NoVerdict
    /\ UNCHANGED <<now, users, nextUid, dbUser, progVars, histVars, timeVars, raceVars>>

\* login: db_user = await conn.fetchrow(SELECT * FROM users WHERE email = $1),
\* the row or None; the handler waits to be resumed with it.
LoginSelect(r, body) ==
    /\ upc[r] = "idle"
    /\ LET found == {u \in users : u.email = body.email}
       IN dbUser' = [dbUser EXCEPT ![r] = IF found = {} THEN <<>>
                                          ELSE <<CHOOSE u \in found : TRUE>>]
    /\ upc' = [upc EXCEPT ![r] = "verify"]
    /\ ucall' = [ucall EXCEPT ![r] = body]
    /\ reply' = NoReply
    /\ verdict' = NoVerdict
    /\ UNCHANGED <<now, users, token, regId, nextUid, holder, progVars, histVars, timeVars,
                   raceVars>>

\* login: the handler is resumed with what the SELECT returned: verify_password
\* against that row, then the token, which reads the clock now, and the answer.
LoginVerify(r) ==
    /\ upc[r] = "verify"
    /\ IF dbUser[r] = <<>> \/ ~VerifyPassword(ucall[r].password, dbUser[r][1].password_hash)
       THEN /\ reply' = Reply("login", ucall[r], 401, "Incorrect email or password",
                              NoToken, FALSE, FALSE)
            /\ UNCHANGED <<token, holder>>
       ELSE /\ token' = CreateAccessToken(<<"int", dbUser[r][1].id>>,
                                          <<ACCESS_TOKEN_EXPIRE_MINUTES>>)
            /\ holder' = dbUser[r][1].id
            /\ reply' = Reply("login", ucall[r], 200, "", token', FALSE, FALSE)
    /\ upc' = [upc EXCEPT ![r] = "idle"]
    /\ ucall' = [ucall EXCEPT ![r] = NoBody]
    /\ dbUser' = [dbUser EXCEPT ![r] = <<>>]
    /\ verdict' = NoVerdict
    /\ UNCHANGED <<now, users, regId, nextUid, progVars, histVars, timeVars, raceVars>>

\* Concurrent register and login requests, and the verification of the token
\* the last of them returned, while the clock runs.
NextAuth ==
    \/ Tick
    \/ \E r \in Req, body \in UserCreate : RegisterSelect(r, body)
    \/ \E r \in Req : RegisterInsert(r)
    \/ \E r \in Req : RegisterMint(r)
    \/ \E r \in Req, body \in UserLogin : LoginSelect(r, body)
    \/ \E r \in Req : LoginVerify(r)
    \/ Verify(SECRET_KEY)

SpecAuth == InitUser /\ [][NextAuth]_vars

\* ------------------------------------------------------------- claims
IsList(o) == o.call.kind = "list" /\ o.resp.status = 200

\* The rows of a listing that carry task id t.
Shown(body, t) == {i \in 1..Len(body) : body[i].id = t}

\* C1 (as claimed): every listing returned to a list request is at least as new
\* as the last write of that user that had returned when the request started,
\* whatever other list requests were in flight during the write.
C1_ReadYourWrite == IsList(out) => out.ver >= out.need

\* C1 (amended): a listing returned to a list request is at least as new as the
\* last write of that user that had returned when the request started, unless it
\* is served from a cache entry that a list request stored from a task-store
\* read which a commit of that user had already overtaken.
C1_ReadYourWriteUnlessLatePopulate == IsList(out) /\ ~out.late => out.ver >= out.need

\* A list that started after a write had returned is served from a cache entry
\* that was up to date when it was stored.
C1_Witness ==
    /\ IsList(out) /\ out.need >= 1 /\ ~out.late
    /\ out.uid[1] \in DOMAIN cache /\ out.rowcount = 0 /\ Len(out.resp.body) >= 1

\* C2 (as claimed): mark-done, reactivate and delete addressed at a task of
\* another user answer 404 "Task not found".
C2_CrossUserNotFound ==
    (/\ out.call.kind \in {"mark_done", "reactivate", "delete_task"}
     /\ out.uid # <<>>
     /\ out.resp.status # 500
     /\ out.call.tid \in DOMAIN tasks
     /\ tasks[out.call.tid].user_id # out.uid[1])
    => out.resp = HTTPException(404, "Task not found")

\* C3: a row of the tasks table changes or disappears only in the commit of a
\* request authenticated as the row's user_id and addressed at the row, and its
\* user_id never changes.
C3_OwnershipIsolation ==
    [][\A t \in DOMAIN tasks :
          /\ (t \notin DOMAIN tasks' \/ tasks'[t] # tasks[t]) =>
                \E r \in Req : /\ pc[r] = "commit" /\ pc'[r] = "invalidate"
                               /\ uid[r] = <<tasks[t].user_id>>
                               /\ call[r].tid = t
          /\ t \in DOMAIN tasks' => tasks'[t].user_id = tasks[t].user_id]_vars

\* A request of user 2 addressed at an open task of user 1 has been answered, and
\* the task is still open.
C3_Witness ==
    /\ out.call.kind \in {"mark_done", "delete_task"}
    /\ out.uid = <<2>>
    /\ out.call.tid \in DOMAIN tasks
    /\ tasks[out.call.tid].user_id = 1
    /\ tasks[out.call.tid].status = "open"

\* C4 (as claimed): a write request whose statement matched no row leaves the
\* cache as it was in every later step of the request.
C4_InvalidateIffSucceeded ==
    [][\A r \in Req :
          (/\ pc[r] \in {"invalidate", "notify"}
           /\ pc'[r] # pc[r]
           /\ rowcount[r] = 0)
          => cache' = cache]_vars

\* C5: a request whose sid names a live session of user 1 or 2 runs its handler
\* as that user, also when the key is evicted after get_user_id read it, and is
\* never rejected; a request whose sid names a key that is gone when
\* get_user_id reads it is rejected 401 "Session expired", whether the key
\* expired (s1) or never existed (s0).
SessionUser == [s \in {"s1", "s2"} |-> IF s = "s1" THEN 1 ELSE 2]

LiveNumeric(cookie) ==
    cookie # <<>> /\ cookie[1] \in DOMAIN SessionUser /\ cookie[1] \in DOMAIN sessions

C5_SessionResolution ==
    /\ \A r \in Req : pc[r] # "idle" =>
          /\ call[r].cookie # <<>> /\ call[r].cookie[1] \in DOMAIN SessionUser
          /\ uid[r] = <<SessionUser[call[r].cookie[1]]>>
    /\ LiveNumeric(out.call.cookie) => out.resp.status # 401 /\ out.uid # <<>>
    /\ (/\ out.r # 0
        /\ out.uid = <<>>
        /\ out.call.cookie # <<>>
        /\ out.call.cookie[1] # ""
        /\ out.call.cookie[1] \notin DOMAIN sessions)
       => out.resp = HTTPException(401, "Session expired")

\* The session s1 has expired and a request carrying it has been rejected.
C5_Witness ==
    /\ out.call.cookie = <<"s1">>
    /\ "s1" \notin DOMAIN sessions
    /\ out.resp.status = 401

\* C6 (as claimed): the rejection just sent is the one every other
\* unauthenticated request gets.
C6_RejectionsIndistinguishable ==
    out.resp.status = 401 =>
        \A c \in Cookies : ~GetUserId(c).ok => GetUserId(c).error = out.resp

\* C7: a handler is called only for a request whose sid names a live session
\* with a numeric value when get_user_id reads it; every step that answers for a
\* user or changes the tasks table, the cache or the outbox is a step of such a
\* handler; and the step that rejects a request changes neither the tasks table,
\* nor the cache, nor the outbox, nor any slot.
C7_FailClosed ==
    [][/\ \A r \in Req : pc[r] = "idle" /\ pc'[r] # "idle" => LiveNumeric(call'[r].cookie)
       /\ (out' # out /\ out'.r # 0 /\ out'.uid # <<>>) =>
             IF pc[out'.r] = "idle" THEN LiveNumeric(out'.call.cookie)
             ELSE uid[out'.r] = out'.uid /\ call[out'.r].cookie = out'.call.cookie
       /\ (tasks' # tasks \/ cache' # cache \/ outbox' # outbox) =>
             \E r \in Req : pc[r] # "idle" \/ LiveNumeric(call'[r].cookie)
       /\ out'.resp.status = 401 =>
             /\ ~LiveNumeric(out'.call.cookie)
             /\ out'.uid = <<>>
             /\ UNCHANGED <<sessions, cache, tasks, nextId, dbTime, began, outbox, pc, uid, rows>>]_vars

\* A create, mark-done, reactivate or delete carrying a malformed session value
\* has been rejected while the table, the cache and the outbox are not empty.
C7_Witness ==
    /\ out.resp.status = 401
    /\ out.call.cookie = <<"s3">>
    /\ out.call.kind # "list"
    /\ "s3" \in DOMAIN sessions
    /\ DOMAIN tasks # {} /\ DOMAIN cache # {} /\ outbox # {}

\* C8: the list that follows a create of the same user, with no step of another
\* request of that user in between, shows the created task exactly once, open.
C8_CreateThenList ==
    (IsList(out) /\ out.seq.kind = "create") =>
        /\ Cardinality(Shown(out.resp.body, out.seq.tid)) = 1
        /\ \A i \in Shown(out.resp.body, out.seq.tid) :
              /\ out.resp.body[i].status = "open"
              /\ out.resp.body[i].user_id = out.uid[1]

\* The list after the create of a user's second task has answered.
C8_Witness == IsList(out) /\ out.seq.kind = "create" /\ Len(out.resp.body) = 2

\* C9: mark-done of a task of the caller never answers 404, also when the task is
\* already done; its response and the row carry status done for as long as no
\* other request of the user steps in, after a first as after a second
\* mark-done; and the list that follows shows the task exactly once, done.
C9_MarkDoneIdempotent ==
    /\ (out.call.kind = "mark_done" /\ out.resp.status = 404) =>
          ~(out.call.tid \in DOMAIN tasks /\ tasks[out.call.tid].user_id = out.uid[1])
    /\ (out.call.kind = "mark_done" /\ out.resp.status = 200) =>
          /\ Len(out.resp.body) = 1
          /\ out.resp.body[1].status = "done"
    /\ \A u \in Users : seqw[u].kind = "mark_done" =>
          /\ seqw[u].tid \in DOMAIN tasks
          /\ tasks[seqw[u].tid].status = "done"
    /\ (IsList(out) /\ out.seq.kind = "mark_done") =>
          /\ Cardinality(Shown(out.resp.body, out.seq.tid)) = 1
          /\ \A i \in Shown(out.resp.body, out.seq.tid) : out.resp.body[i].status = "done"

\* The list after a mark-done of a task that was already done has answered.
C9_Witness == IsList(out) /\ out.seq.kind = "mark_done" /\ out.seq.was = "done"

\* C10 (as claimed): a token minted with ttl = 0 and verified at once, with its
\* signature intact, fails verification with kind Expired.
C10_ZeroTtlExpired ==
    (/\ verdict # NoVerdict
     /\ verdict.token.ttl = <<0>>
     /\ verdict.token.iat = now
     /\ verdict.token.key = SECRET_KEY)
    => verdict.kind = "Expired"

\* C11 (as claimed): a token that a successful register or login returned for a
\* user is accepted, with its signature intact, at every time before minting
\* time + 30 minutes and resolves to that user's id; after that expiry it is
\* rejected with 401; a login that fails returns no token.
C11_TokenAcceptedUntilExpiry ==
    /\ (verdict # NoVerdict /\ holder # 0 /\ verdict.token = token) =>
          /\ now < token.iat + ACCESS_TOKEN_EXPIRE_MINUTES =>
                verdict.status = 200 /\ verdict.user = <<holder>>
          /\ now > token.iat + ACCESS_TOKEN_EXPIRE_MINUTES => verdict.status = 401
    /\ (reply.op = "login" /\ reply.status = 401) => reply.token = NoToken

\* C12 (as claimed): no two users share a username or an email, and a register
\* request whose username or email is taken when it answers, by an earlier or a
\* concurrent register, answers 400 "Email or username already registered",
\* adds no user and returns no token.
C12_DuplicateRegisterConflicts ==
    /\ \A u, v \in users : (u.username = v.username \/ u.email = v.email) => u = v
    /\ (reply.op = "register" /\ reply.taken) =>
          /\ reply.status = 400
          /\ reply.detail = "Email or username already registered"
          /\ ~reply.created
          /\ reply.token = NoToken

\* What a step does with the notification of each request in flight.
C13_NotifyStep ==
    \A r \in Req :
        /\ (pc[r] = "notify" /\ pc'[r] # "notify") =>
              /\ out'.r = r
              /\ out'.resp = Response(IF call[r].kind = "create" THEN 201 ELSE 200,
                                      <<tasks[rows[r][1].id]>>)
              /\ tasks' = tasks
              /\ cache' = cache
              /\ CacheKeyTasks(User(r)) \notin DOMAIN cache'
              /\ commits' = commits
              /\ pc'[r] = "idle"
              /\ Cardinality(outbox' \ outbox) <= 1
        /\ (pc[r] = "notify" /\ pc'[r] = "notify") => outbox' = outbox
        /\ (\A q \in Req : pc[q] # "notify") => outbox' = outbox

\* C13: the step in which a create, mark-done or reactivate request makes its
\* one notification attempt, whether the send succeeds or raises, returns the
\* response of a run without notification (201 for create, 200 otherwise, with
\* the committed row), leaves the task store and the cache as the commit and the
\* invalidation left them, and adds at most one message; no other step sends.
C13_NotificationNeverPropagates == [][C13_NotifyStep]_vars

\* A mark-done with SMTP_HOST set and a recipient has answered 200 although its
\* send raised (nothing was ever sent).
C13_Witness ==
    /\ out.call.kind = "mark_done"
    /\ out.resp.status = 200
    /\ smtpHost # ""
    /\ out.call.email # <<>>
    /\ outbox = {}

\* Where a step stands in the order commit, invalidation, notification, response
\* of each write request in flight.
C14_WriteStep ==
    \A r \in Req :
        /\ (pc'[r] = "commit" /\ pc[r] # "commit") =>
              tasks' = tasks /\ cache' = cache /\ outbox' = outbox /\ out' = NoOut
        /\ (pc'[r] = "invalidate" /\ pc[r] # "invalidate") =>
              cache' = cache /\ outbox' = outbox /\ out' = NoOut
        /\ (pc[r] = "invalidate" /\ pc'[r] # "invalidate") =>
              /\ CacheKeyTasks(User(r)) \notin DOMAIN cache'
              /\ tasks' = tasks
              /\ outbox' = outbox
        /\ (pc[r] = "notify" /\ outbox' # outbox) =>
              CacheKeyTasks(User(r)) \notin DOMAIN cache
        /\ (out' # out /\ out'.r = r /\ out'.call.kind \notin {"", "list"}
              /\ out'.resp.status \in {200, 201, 204}) =>
              /\ pc[r] \in {"invalidate", "notify"}
              /\ CacheKeyTasks(User(r)) \notin DOMAIN cache'
        /\ (pc'[r] = "notify" /\ pc[r] # "notify") => pc[r] = "invalidate"
        /\ (pc'[r] = "invalidate" /\ pc[r] # "invalidate") =>
              \/ pc[r] = "commit"
              \/ call'[r].kind = "delete_task" /\ rowcount'[r] = 0 /\ tasks' = tasks
        /\ tasks' # tasks => \E q \in Req : pc[q] = "commit" /\ pc'[q] = "invalidate"

\* C14: in every successful create, mark-done, reactivate and delete request of
\* a user, the user's cache entry is deleted in a step after the commit, before
\* the notification attempt and before the response; no successful write
\* response is returned by a request that has not performed its invalidation.
C14_InvalidateBetweenCommitAndResponse == [][C14_WriteStep]_vars

\* A create whose notification was sent has answered 201, the user's entry
\* deleted, after a listing had been cached for the user (two commits: the
\* earlier one was listed).
C14_Witness ==
    /\ out.call.kind = "create"
    /\ out.resp.status = 201
    /\ outbox # {}
    /\ out.uid # <<>>
    /\ CacheKeyTasks(out.uid[1]) \notin DOMAIN cache
    /\ \E k \in DOMAIN tasks : tasks[k].user_id = out.uid[1] /\ k # out.resp.body[1].id

\* The commits of the user a list response omits although the request arrived
\* more than the ttl after them.
C15_OmittedPastTtl ==
    {j \in 1..Len(commitAt[out.uid[1]]) :
        out.ver < j /\ startAt[out.r] > commitAt[out.uid[1]][j] + TtlTicks}

\* C15 (as claimed): a list that starts later than the ttl (30 seconds) after
\* the commit of a write of the user reflects that write, whatever the
\* interleaving of list and write requests.
C15_StaleAtMostTtlFromCommit == IsList(out) => C15_OmittedPastTtl = {}

\* C15 (amended): a list that starts later than the ttl after the commit of a
\* write reflects the write unless it is served from an entry that a list
\* request stored after the commit with rows read before it; such an entry, like
\* every entry, is served for no longer than the ttl counted from its store (it
\* is gone before the tick after the TtlTicks-th since its store).
C15_StaleAtMostTtlFromStore ==
    /\ \A u \in DOMAIN cache : clock <= expireAt[u] /\ expireAt[u] <= clock + TtlTicks
    /\ (IsList(out) /\ C15_OmittedPastTtl # {}) =>
          /\ out.late
          /\ out.uid[1] \in DOMAIN cache
          /\ startAt[out.r] = clock

\* A list that arrived more than the ttl after a commit was served the listing
\* without it, from an entry stored late.
C15_Witness == IsList(out) /\ out.late /\ C15_OmittedPastTtl # {}

\* The invalidation of request r, and the store of the list that followed an
\* invalidation which evicted a listing without the write: the entry is absent
\* after the first; the second returns rows at least as new as the write and
\* leaves them in the cache.
C16_InvalidateAndRepopulate(r) ==
    /\ (pc[r] = "invalidate" /\ pc'[r] # "invalidate") =>
          CacheKeyTasks(User(r)) \notin DOMAIN cache'
    /\ (pc[r] = "setex" /\ pc'[r] # "setex" /\ nxt[r] # 0) =>
          /\ out'.r = r
          /\ out'.resp = Response(200, rows[r])
          /\ out'.ver >= nxt[r]
          /\ RedisGet(cache', CacheKeyTasks(User(r))) = JsonDumps(rows[r])
          /\ cacheVer'[CacheKeyTasks(User(r))] = out'.ver

\* Request r is a list of user u that arrives in this step and is served from
\* the cache.
C16_Hit(r, u) ==
    /\ pc[r] = "idle"
    /\ out'.r = r
    /\ out'.call.kind = "list"
    /\ out'.resp.status = 200
    /\ out'.uid = <<u>>

\* C16 (as claimed): when the invalidation of a write evicts a listing without
\* the write, the entry is absent right after it, and the next list request of
\* the user queries the task store, returns post-write data and repopulates the
\* cache with it.
C16_LastInvalidateWins ==
    [][\A r \in Slots :
          /\ C16_InvalidateAndRepopulate(r)
          /\ \A u \in Users : pend[u] # 0 => ~C16_Hit(r, u)]_vars

\* C16 (amended): as claimed, except that the next list request may be served
\* from the cache: an entry stored since the invalidation by a list request that
\* read the task store after the write (post-write data), or by one that read
\* it before the write (a late populate, the listing without the write).
C16_LastInvalidateWinsUnlessPopulated ==
    [][\A r \in Slots :
          /\ C16_InvalidateAndRepopulate(r)
          /\ \A u \in Users : (pend[u] # 0 /\ C16_Hit(r, u)) =>
                out'.ver >= pend[u] \/ out'.late]_vars

\* The list that followed such an invalidation has queried the task store and
\* answered.
C16_Witness == IsList(out) /\ nxt[out.r] # 0 /\ out.ver >= nxt[out.r]

\* The cached listing of user u omits a committed write of u.
C17_Stale(u) == u \in DOMAIN cache /\ cacheVer[u] < commits[u]

\* C17: when a write request is killed after its commit and before its cache
\* delete, the listing it left in the cache is gone when its ttl is over (every
\* entry is, before the tick after the TtlTicks-th since its setex, and nothing
\* but a setex of the key sets its expiry), a cached listing that omits a
\* commit is eventually removed, and from some time on every list returns the
\* committed state.
C17_SelfHealing ==
    /\ [](\A u \in DOMAIN cache : clock <= expireAt[u])
    /\ [][\A u \in DOMAIN cache' :
             expireAt'[u] # expireAt[u] =>
                \E r \in Req : pc[r] = "setex" /\ pc'[r] = "idle" /\ uid[r] = <<u>>]_vars
    /\ \A u \in Users : C17_Stale(u) ~> (u \notin DOMAIN cache)
    /\ <>[](IsList(out) => out.ver = commits[out.uid[1]])

\* A mark-done was killed before its cache delete (its commit was never
\* answered and no request is about to invalidate) and the listing without it
\* is still cached.
C17_Witness ==
    /\ C17_Stale(1)
    /\ ~cacheLate[1]
    /\ commits[1] > returned[1]
    /\ \A r \in Req : pc[r] # "invalidate"

\* C18: concurrent mark-done, reactivate and delete requests of a task by its
\* owner take effect one statement at a time: an update that answers 200
\* returns the task's row with its own new status, an update answers 404 only
\* when no row of the owner has the id (it was deleted first, or never existed),
\* and the task store is as the last committed statement left it.
C18_MutationsSerialize ==
    /\ (out.call.kind \in {"mark_done", "reactivate"} /\ out.resp.status = 200) =>
          /\ Len(out.resp.body) = 1
          /\ out.resp.body[1].id = out.call.tid
          /\ out.resp.body[1].user_id = out.uid[1]
          /\ out.resp.body[1].status = (IF out.call.kind = "mark_done" THEN "done" ELSE "open")
    /\ (out.call.kind \in {"mark_done", "reactivate"} /\ out.resp.status = 404) =>
          \A t \in DOMAIN tasks : ~(t = out.call.tid /\ tasks[t].user_id = out.uid[1])
    /\ \A u \in Users :
          /\ seqw[u].kind = "mark_done" =>
                seqw[u].tid \in DOMAIN tasks /\ tasks[seqw[u].tid].status = "done"
          /\ seqw[u].kind = "reactivate" =>
                seqw[u].tid \in DOMAIN tasks /\ tasks[seqw[u].tid].status = "open"
          /\ seqw[u].kind = "delete_task" => seqw[u].tid \notin DOMAIN tasks

\* A mark-done answers 200 with status done after a concurrent reactivate of the
\* same task has committed: the row in the task store is open again.
C18_Witness ==
    /\ out.call.kind = "mark_done"
    /\ out.resp.status = 200
    /\ out.call.tid \in DOMAIN tasks
    /\ tasks[out.call.tid].status = "open"
    /\ \E r \in Req : /\ pc[r] = "invalidate" /\ call[r].kind = "reactivate"
                       /\ call[r].tid = out.call.tid /\ uid[r] = out.uid

\* The rows of user u in the task store, as a set.
C19_RowsOf(u) == {tasks[t] : t \in {k \in DOMAIN tasks : tasks[k].user_id = u}}

\* What a step of the list request in slot r does: served from the cache, taken
\* in on a miss, the query, the store.
C19_ReadStep(r) ==
    /\ (pc[r] = "idle" /\ out'.r = r /\ out'.call.kind = "list" /\ out'.resp.status = 200) =>
          /\ out'.uid[1] \in DOMAIN cache
          /\ out'.resp.body = TaskOutList(cache[out'.uid[1]][2])
          /\ pc'[r] = "idle"
          /\ UNCHANGED <<cache, expireAt, tasks, rows>>
    /\ (pc[r] = "idle" /\ pc'[r] = "sql") =>
          /\ uid'[r][1] \notin DOMAIN cache
          /\ UNCHANGED <<cache, expireAt, tasks>>
    /\ (pc[r] = "sql" /\ pc'[r] # "sql") =>
          /\ pc'[r] = "setex"
          /\ {rows'[r][i] : i \in 1..Len(rows'[r])} = C19_RowsOf(uid[r][1])
          /\ Len(rows'[r]) = Cardinality(C19_RowsOf(uid[r][1]))
          /\ \A i, j \in 1..Len(rows'[r]) :
                i < j => rows'[r][i].created_at[2] >= rows'[r][j].created_at[2]
          /\ UNCHANGED <<cache, expireAt, tasks>>
    /\ (pc[r] = "setex" /\ pc'[r] # "setex") =>
          /\ DOMAIN cache' = DOMAIN cache \cup {uid[r][1]}
          /\ \A u \in DOMAIN cache \ {uid[r][1]} :
                cache'[u] = cache[u] /\ expireAt'[u] = expireAt[u]
          /\ cache'[uid[r][1]][2] =
                [i \in 1..Len(rows[r]) |->
                   [rows[r][i] EXCEPT !.created_at = <<"str", @[2]>>,
                                      !.updated_at = <<"str", @[2]>>]]
          /\ expireAt'[uid[r][1]] = clock + CacheTtl \div SecondsPerTick
          /\ out'.r = r
          /\ out'.resp.status = 200
          /\ out'.resp.body = rows[r]
          /\ out'.resp.body = TaskOutList(cache'[uid[r][1]][2])
          /\ tasks' = tasks

\* C19: a list of a user whose entry is in the cache returns the stored value,
\* queries nothing and changes neither the entry nor its expiry; a list that
\* finds no entry queries the task store, stores the rows, ordered newest first,
\* with a ttl of 30 seconds and returns what it stored; the empty listing is
\* cached and served like any other.
C19_CacheAsideRead == [][\A r \in Req : C19_ReadStep(r)]_vars

\* The empty listing of a user with no task is served from the cache, a tick
\* after it was stored, its expiry as it was set.
C19_Witness ==
    /\ IsList(out)
    /\ out.resp.body = <<>>
    /\ out.uid[1] \in DOMAIN cache
    /\ cache[out.uid[1]][2] = <<>>
    /\ expireAt[out.uid[1]] < clock + TtlTicks
    /\ \A r \in Req : pc[r] = "idle"

\* The user whose request takes this step in slot r (<<>> if none does).
C20_Actor(r) ==
    IF pc'[r] # pc[r] THEN (IF pc[r] # "idle" THEN uid[r] ELSE uid'[r])
    ELSE IF out'.r = r /\ out' # out THEN out'.uid
    ELSE <<>>

\* C20: a step of a request authenticated as a user leaves the cache entry of
\* every other user as it was, value and expiry, and every listing cached for
\* or returned to a user holds rows of that user only.
C20_PerUserFrame ==
    [][/\ \A r \in Req : \A v \in Users :
              (C20_Actor(r) # <<>> /\ C20_Actor(r) # <<v>>) =>
                 /\ (v \in DOMAIN cache') = (v \in DOMAIN cache)
                 /\ v \in DOMAIN cache => cache'[v] = cache[v]
                 /\ expireAt'[v] = expireAt[v]
       /\ \A u \in DOMAIN cache' :
              \A i \in 1..Len(cache'[u][2]) : cache'[u][2][i].user_id = u
       /\ (out'.call.kind = "list" /\ out'.resp.status = 200) =>
              \A i \in 1..Len(out'.resp.body) : out'.resp.body[i].user_id = out'.uid[1]]_vars

\* A create of user 2 has answered, after its invalidation, while the listing
\* of user 1, one task in it, is in the cache.
C20_Witness ==
    /\ out.uid = <<2>>
    /\ out.call.kind = "create"
    /\ out.resp.status = 201
    /\ 1 \in DOMAIN cache
    /\ cache[1][2] # <<>>
    /\ 2 \notin DOMAIN cache
====
